---- MODULE Spec2Model ----
(***************************************************************************)
(* A model of the cigarette-counter bot: the create_cigarette_ui command   *)
(* (src/src/commands.rs), the persistence gateway (src/src/database.rs)    *)
(* and the shared gateway lock (src/src/main.rs).                          *)
(*                                                                         *)
(* Strings are sequences of one-character strings, so that formatting      *)
(* (to_string, format!) and parsing (starts_with, trim_start_matches,      *)
(* from_str_radix) are computed character by character.                    *)
(***************************************************************************)
EXTENDS Integers, Sequences, FiniteSets, TLC

\* ------------------------------------------------------------------ bounds

\* Button presses the platform delivers in one run.
MaxPresses == 2
\* Last instant of the clock.
MaxNow == 1
\* Clock instants per calendar day.
TicksPerDay == 1
\* Gateway calls in one run of the gateway-only specification.
MaxCalls == 4
\* Largest catalog type id of the identifier round-trip specification.
MaxTypeId == 30

\* ------------------------------------------------------------------ values

\* An absent value (Option::None, a variable not yet assigned).
NoneVal == [tag |-> "none"]

\* No gateway call yet.
NoCall == [op |-> "none"]

\* The largest i32.
I32Max == 2147483647

\* The concurrently running command invocations.
Inv == {1, 2}

\* The platform's users: identifier and display name.
Users == {[id |-> 1, name |-> "alice"], [id |-> 2, name |-> "bob"]}

\* The identifier ctx.id() gives each invocation: distinct, and the decimal
\* digits of the first begin those of the second.
CtxId(p) == IF p = 1 THEN 12 ELSE 121

\* The smoking_types table (read-only at run time).
smoking_types ==
  { [id |-> 1,  type_name |-> "paper",  description |-> "Paper"],
    [id |-> 11, type_name |-> "heated", description |-> "Heated"] }

\* ----------------------------------------------------------------- strings

Digits == <<"0", "1", "2", "3", "4", "5", "6", "7", "8", "9">>

IsDigit(c) == \E i \in 1..10 : Digits[i] = c

DigitVal(c) == (CHOOSE i \in 1..10 : Digits[i] = c) - 1

RECURSIVE NatToString(_)
NatToString(n) ==
  IF n < 10 THEN <<Digits[n + 1]>>
  ELSE NatToString(n \div 10) \o <<Digits[(n % 10) + 1]>>

\* Display of an integer (u64 and i32 to_string, "{}" in format!).
to_string(n) == IF n < 0 THEN <<"-">> \o NatToString(-n) ELSE NatToString(n)

\* str::starts_with
starts_with(s, pat) ==
  /\ Len(pat) <= Len(s)
  /\ SubSeq(s, 1, Len(pat)) = pat

\* str::trim_start_matches: every leading occurrence of pat is removed.
RECURSIVE trim_start_matches(_, _)
trim_start_matches(s, pat) ==
  IF Len(pat) > 0 /\ starts_with(s, pat)
  THEN trim_start_matches(SubSeq(s, Len(pat) + 1, Len(s)), pat)
  ELSE s

RECURSIVE DigitsValue(_)
DigitsValue(s) ==
  IF Len(s) = 0 THEN 0
  ELSE 10 * DigitsValue(SubSeq(s, 1, Len(s) - 1)) + DigitVal(s[Len(s)])

\* i32::from_str_radix(src, 10): an optional sign, then one or more digits, in
\* the range of i32.
from_str_radix(src) ==
  LET signed == Len(src) > 0 /\ src[1] \in {"+", "-"}
      body   == IF signed THEN SubSeq(src, 2, Len(src)) ELSE src
      val    == IF signed /\ src[1] = "-" THEN -DigitsValue(body) ELSE DigitsValue(body)
  IN  IF \/ Len(body) = 0
         \/ \E i \in 1..Len(body) : ~IsDigit(body[i])
      THEN [ok |-> FALSE, val |-> 0]
      ELSE IF val > I32Max \/ val < -I32Max - 1
           THEN [ok |-> FALSE, val |-> 0]
           ELSE [ok |-> TRUE, val |-> val]

\* extract_cigarette_id
extract_cigarette_id(custom_id, uuid) ==
  from_str_radix(trim_start_matches(custom_id, uuid))

\* The button identifier of create_cigarette_buttons: format!("{}{}", uuid, id).
button_id(uuid, id) == uuid \o to_string(id)

\* create_cigarette_buttons: one button per catalog type.
create_cigarette_buttons(uuid) ==
  {[custom_id |-> button_id(uuid, t.id), label |-> t.description] : t \in smoking_types}

\* ----------------------------------------------------------------- gateway

\* DATE(timestamp), and the date of Local::now().
DateOf(t) == t \div TicksPerDay

\* The SELECT of get_or_create_user (fetch_optional).
goc_select(table, discord_id) ==
  IF \E i \in 1..Len(table) : table[i].discord_id = discord_id
  THEN table[CHOOSE i \in 1..Len(table) : table[i].discord_id = discord_id]
  ELSE NoneVal

\* A get_or_create_user that rewrites the row whatever its name.
name_differs_Always(found, username) == TRUE

\* Whether get_or_create_user rewrites the row it found.
name_differs(found, username) == found.username # username

\* The write get_or_create_user decides on after its SELECT.
goc_write(found, discord_id, username, t) ==
  IF found = NoneVal
  THEN [op |-> "insert",
        row |-> [discord_id |-> discord_id, username |-> username, updated_at |-> t]]
  ELSE IF name_differs(found, username)
       THEN [op |-> "update",
             row |-> [discord_id |-> discord_id, username |-> username, updated_at |-> t]]
       ELSE [op |-> "none", row |-> found]

\* The users table once the transaction's write is committed.
goc_commit(table, w) ==
  CASE w.op = "insert" -> Append(table, w.row)
    [] w.op = "update" ->
         [i \in 1..Len(table) |->
            IF table[i].discord_id = w.row.discord_id THEN w.row ELSE table[i]]
    [] OTHER -> table

\* A log_smoking that replaces the table's rows by the new one.
log_smoking_Overwrite(log, discord_id, smoking_type_id, quantity, t) ==
  <<[id |-> 1, discord_id |-> discord_id, smoking_type_id |-> smoking_type_id,
     quantity |-> quantity, smoked_at |-> t]>>

\* log_smoking: one new row.
log_smoking(log, discord_id, smoking_type_id, quantity, t) ==
  Append(log, [id |-> Len(log) + 1, discord_id |-> discord_id,
               smoking_type_id |-> smoking_type_id, quantity |-> quantity,
               smoked_at |-> t])

RECURSIVE SumQuantity(_)
SumQuantity(rows) ==
  IF rows = {} THEN 0
  ELSE LET r == CHOOSE x \in rows : TRUE
       IN  r.quantity + SumQuantity(rows \ {r})

\* The joined rows without the date condition of the WHERE clause.
summary_join_AnyDate(table, log, discord_id, date) ==
  { [id |-> log[x[1]].id, quantity |-> log[x[1]].quantity,
     discord_id |-> log[x[1]].discord_id, username |-> table[x[2]].username,
     smoke_date |-> date,
     type_name |-> x[3].type_name, description |-> x[3].description] :
       x \in { y \in (1..Len(log)) \X (1..Len(table)) \X smoking_types :
                /\ log[y[1]].discord_id = table[y[2]].discord_id
                /\ log[y[1]].smoking_type_id = y[3].id
                /\ log[y[1]].discord_id = discord_id } }

\* The joined rows of get_daily_summary's query.
summary_join(table, log, discord_id, date) ==
  { [id |-> log[i].id, quantity |-> log[i].quantity,
     discord_id |-> log[i].discord_id, username |-> table[j].username,
     smoke_date |-> DateOf(log[i].smoked_at),
     type_name |-> st.type_name, description |-> st.description] :
       <<i, j, st>> \in
         { x \in (1..Len(log)) \X (1..Len(table)) \X smoking_types :
             /\ log[x[1]].discord_id = table[x[2]].discord_id
             /\ log[x[1]].smoking_type_id = x[3].id
             /\ log[x[1]].discord_id = discord_id
             /\ DateOf(log[x[1]].smoked_at) = date } }

\* The GROUP BY key of a joined row.
summary_key(r) ==
  [discord_id |-> r.discord_id, username |-> r.username, smoke_date |-> r.smoke_date,
   type_name |-> r.type_name, description |-> r.description]

\* get_daily_summary: one row per group, with the group's summed quantity.
get_daily_summary(table, log, discord_id, date) ==
  LET joined == summary_join(table, log, discord_id, date)
  IN  { [discord_id |-> k.discord_id, username |-> k.username,
         smoke_date |-> k.smoke_date, type_name |-> k.type_name,
         description |-> k.description,
         total_quantity |-> SumQuantity({r \in joined : summary_key(r) = k})] :
          k \in {summary_key(r) : r \in joined} }

\* format_daily_summary: one line per summary row.
format_daily_summary(daily_summary) ==
  { <<s.description, to_string(s.total_quantity)>> : s \in daily_summary }

\* ------------------------------------------------------------------- state

VARIABLES
  pc,            \* each invocation's position in create_cigarette_ui
  uuid,          \* each invocation's correlation token (ctx.id().to_string())
  author,        \* each invocation's ctx.author()
  buttons,       \* the buttons of the panel each invocation sent
  result,        \* what each invocation returned
  lock,          \* the holder of Data.database's mutex, 0 when free
  mci,           \* the press event each invocation is handling
  found,         \* get_or_create_user: the row its SELECT found
  tx,            \* get_or_create_user: the open transaction's write
  user,          \* handle_interaction: the user get_or_create_user returned
  cigarette_id,  \* handle_interaction: the parsed type id
  daily_summary, \* handle_interaction: the summary it read
  users,         \* the users table
  logs,          \* the smoking_logs table
  reply,         \* the response each invocation sent last
  now,           \* the clock
  nPresses,      \* the press events delivered so far
  handled,       \* the presses handle_interaction returned Ok for
  calls,         \* gateway-only specification: the calls made so far
  last,          \* gateway-only specification: the last call and what it returned
  prev,          \* gateway-only specification: the call before the last
  rt             \* round-trip specification: token, type id, identifier, result

locals == <<mci, found, tx, user, cigarette_id, daily_summary>>
panel  == <<uuid, author, buttons>>
aux    == <<calls, last, prev, rt>>
vars   == <<pc, uuid, author, buttons, result, lock, mci, found, tx, user,
            cigarette_id, daily_summary, users, logs, reply, now, nPresses,
            handled, calls, last, prev, rt>>

\* The positions of handle_interaction at which the lock is held.
HandlePcs == {"h_goc_select", "h_goc_write", "h_goc_commit", "h_extract",
              "h_log", "h_summary", "h_respond"}

\* The positions of get_or_create_user.
GocPcs == {"h_goc_select", "h_goc_write", "h_goc_commit"}

Init ==
  /\ pc = [p \in Inv |-> "idle"]
  /\ uuid = [p \in Inv |-> <<>>]
  /\ author = [p \in Inv |-> NoneVal]
  /\ buttons = [p \in Inv |-> {}]
  /\ result = [p \in Inv |-> NoneVal]
  /\ lock = 0
  /\ mci = [p \in Inv |-> NoneVal]
  /\ found = [p \in Inv |-> NoneVal]
  /\ tx = [p \in Inv |-> NoneVal]
  /\ user = [p \in Inv |-> NoneVal]
  /\ cigarette_id = [p \in Inv |-> NoneVal]
  /\ daily_summary = [p \in Inv |-> NoneVal]
  /\ users = <<>>
  /\ logs = <<>>
  /\ reply = [p \in Inv |-> NoneVal]
  /\ now = 0
  /\ nPresses = 0
  /\ handled = 0
  /\ calls = 0
  /\ last = NoCall
  /\ prev = NoCall
  /\ rt = NoneVal

\* ------------------------------------------------------------ the command

\* A lock that never makes its caller wait.
LockFree_NoWait == TRUE

\* futures::lock::Mutex::lock resolves only while nobody holds the mutex.
LockFree == lock = 0

\* The listener's filter: custom_id.starts_with(&uuid).
filter(p, custom_id) == starts_with(custom_id, uuid[p])

\* The invocations whose panel is in the channel.
Sent == {p \in Inv : pc[p] \notin {"idle", "r_lock", "r_types", "send"} /\ buttons[p] # {}}

\* Identifiers of components that are not buttons of a panel.
OtherComponentIds ==
  UNION {{uuid[p] \o <<"x">>, uuid[p] \o uuid[p] \o <<"+", "1">>} : p \in Sent}

\* An error that is dropped: the loop goes back to waiting for presses.
Fail_Swallow(p, kind) ==
  /\ pc' = [pc EXCEPT ![p] = "listen"]
  /\ lock' = IF lock = p THEN 0 ELSE lock
  /\ mci' = [mci EXCEPT ![p] = NoneVal]
  /\ found' = [found EXCEPT ![p] = NoneVal]
  /\ tx' = [tx EXCEPT ![p] = NoneVal]
  /\ user' = [user EXCEPT ![p] = NoneVal]
  /\ cigarette_id' = [cigarette_id EXCEPT ![p] = NoneVal]
  /\ daily_summary' = [daily_summary EXCEPT ![p] = NoneVal]
  /\ UNCHANGED result

\* An error exit that leaks the guard: the lock stays taken.
Fail_KeepGuard(p, kind) ==
  /\ pc' = [pc EXCEPT ![p] = "failed"]
  /\ result' = [result EXCEPT ![p] = [ok |-> FALSE, kind |-> kind]]
  /\ UNCHANGED lock
  /\ mci' = [mci EXCEPT ![p] = NoneVal]
  /\ found' = [found EXCEPT ![p] = NoneVal]
  /\ tx' = [tx EXCEPT ![p] = NoneVal]
  /\ user' = [user EXCEPT ![p] = NoneVal]
  /\ cigarette_id' = [cigarette_id EXCEPT ![p] = NoneVal]
  /\ daily_summary' = [daily_summary EXCEPT ![p] = NoneVal]

\* The `?` of a failing call: the invocation returns the error; the guard it
\* holds, and its open transaction, are dropped.
Fail(p, kind) ==
  /\ pc' = [pc EXCEPT ![p] = "failed"]
  /\ result' = [result EXCEPT ![p] = [ok |-> FALSE, kind |-> kind]]
  /\ lock' = IF lock = p THEN 0 ELSE lock
  /\ mci' = [mci EXCEPT ![p] = NoneVal]
  /\ found' = [found EXCEPT ![p] = NoneVal]
  /\ tx' = [tx EXCEPT ![p] = NoneVal]
  /\ user' = [user EXCEPT ![p] = NoneVal]
  /\ cigarette_id' = [cigarette_id EXCEPT ![p] = NoneVal]
  /\ daily_summary' = [daily_summary EXCEPT ![p] = NoneVal]

\* A user invokes the command: the framework calls create_cigarette_ui.
Invoke(p) ==
  /\ pc[p] = "idle"
  /\ uuid' = [uuid EXCEPT ![p] = to_string(CtxId(p))]
  /\ \E a \in Users : author' = [author EXCEPT ![p] = a]
  /\ pc' = [pc EXCEPT ![p] = "r_lock"]
  /\ UNCHANGED <<buttons, result, lock, locals, users, logs, reply, now, nPresses, handled, aux>>

\* create_cigarette_buttons: take the lock.
RenderLock(p) ==
  /\ pc[p] = "r_lock"
  /\ LockFree
  /\ lock' = p
  /\ pc' = [pc EXCEPT ![p] = "r_types"]
  /\ UNCHANGED <<panel, result, locals, users, logs, reply, now, nPresses, handled, aux>>

\* create_cigarette_buttons: read the catalog, build the buttons, drop the lock.
RenderTypes(p) ==
  /\ pc[p] = "r_types"
  /\ pc' = [pc EXCEPT ![p] = "send"]
  /\ buttons' = [buttons EXCEPT ![p] = create_cigarette_buttons(uuid[p])]
  /\ lock' = 0
  /\ UNCHANGED <<uuid, author, result, locals, users, logs, reply, now, nPresses, handled, aux>>

\* get_smoking_types fails.
RenderTypesFail(p) ==
  /\ pc[p] = "r_types"
  /\ Fail(p, "store")
  /\ UNCHANGED <<panel, users, logs, reply, now, nPresses, handled, aux>>

\* ctx.send(reply): the panel is in the channel.
Send(p) ==
  /\ pc[p] = "send"
  /\ pc' = [pc EXCEPT ![p] = "listen"]
  /\ UNCHANGED <<panel, result, lock, locals, users, logs, reply, now, nPresses, handled, aux>>

\* ctx.send fails.
SendFail(p) ==
  /\ pc[p] = "send"
  /\ Fail(p, "platform")
  /\ buttons' = [buttons EXCEPT ![p] = {}]
  /\ UNCHANGED <<uuid, author, users, logs, reply, now, nPresses, handled, aux>>

\* The platform delivers a press of the component custom_id, on message m, by
\* user u, to every collector that is waiting and whose filter accepts it.
Deliver(u, m, custom_id) ==
  LET acc == {p \in Inv : pc[p] = "listen" /\ filter(p, custom_id)}
      ev  == [id |-> nPresses + 1, user |-> u, custom_id |-> custom_id, message |-> m]
  IN  /\ acc # {}
      /\ mci' = [p \in Inv |-> IF p \in acc THEN ev ELSE mci[p]]
      /\ pc' = [p \in Inv |-> IF p \in acc THEN "h_lock" ELSE pc[p]]

\* A user presses a button of a panel.
Press ==
  /\ nPresses < MaxPresses
  /\ \E u \in Users, m \in Sent : \E b \in buttons[m] : Deliver(u, m, b.custom_id)
  /\ nPresses' = nPresses + 1
  /\ UNCHANGED <<panel, result, lock, found, tx, user, cigarette_id, daily_summary,
                 users, logs, reply, now, handled, aux>>

\* A user presses a component that is not a button of a panel.
PressOther ==
  /\ nPresses < MaxPresses
  /\ \E u \in Users, c \in OtherComponentIds : Deliver(u, 0, c)
  /\ nPresses' = nPresses + 1
  /\ UNCHANGED <<panel, result, lock, found, tx, user, cigarette_id, daily_summary,
                 users, logs, reply, now, handled, aux>>

\* The collector yields None: the loop ends and the command returns Ok.
StreamEnd(p) ==
  /\ pc[p] = "listen"
  /\ pc' = [pc EXCEPT ![p] = "done"]
  /\ result' = [result EXCEPT ![p] = [ok |-> TRUE]]
  /\ UNCHANGED <<panel, lock, locals, users, logs, reply, now, nPresses, handled, aux>>

\* handle_interaction: take the lock.
HandleLock(p) ==
  /\ pc[p] = "h_lock"
  /\ LockFree
  /\ lock' = p
  /\ pc' = [pc EXCEPT ![p] = "h_goc_select"]
  /\ UNCHANGED <<panel, result, locals, users, logs, reply, now, nPresses, handled, aux>>

\* The two arguments handle_interaction gives get_or_create_user.
goc_discord_id(p) == to_string(mci[p].user.id)
goc_username(p) == author[p].name

\* get_or_create_user: begin, and SELECT the row.
GocSelect(p) ==
  /\ pc[p] = "h_goc_select"
  /\ pc' = [pc EXCEPT ![p] = "h_goc_write"]
  /\ found' = [found EXCEPT ![p] = goc_select(users, goc_discord_id(p))]
  /\ UNCHANGED <<panel, result, lock, mci, tx, user, cigarette_id, daily_summary,
                 users, logs, reply, now, nPresses, handled, aux>>

\* get_or_create_user: INSERT, UPDATE or neither, inside the transaction.
GocWrite(p) ==
  /\ pc[p] = "h_goc_write"
  /\ pc' = [pc EXCEPT ![p] = "h_goc_commit"]
  /\ tx' = [tx EXCEPT ![p] = goc_write(found[p], goc_discord_id(p), goc_username(p), now)]
  /\ UNCHANGED <<panel, result, lock, mci, found, user, cigarette_id, daily_summary,
                 users, logs, reply, now, nPresses, handled, aux>>

\* get_or_create_user: commit and return the row.
GocCommit(p) ==
  /\ pc[p] = "h_goc_commit"
  /\ pc' = [pc EXCEPT ![p] = "h_extract"]
  /\ users' = goc_commit(users, tx[p])
  /\ user' = [user EXCEPT ![p] = tx[p].row]
  /\ tx' = [tx EXCEPT ![p] = NoneVal]
  /\ found' = [found EXCEPT ![p] = NoneVal]
  /\ UNCHANGED <<panel, result, lock, mci, cigarette_id, daily_summary,
                 logs, reply, now, nPresses, handled, aux>>

\* extract_cigarette_id succeeds.
Extract(p) ==
  /\ pc[p] = "h_extract"
  /\ pc' = [pc EXCEPT ![p] = "h_log"]
  /\ LET r == extract_cigarette_id(mci[p].custom_id, uuid[p])
     IN  /\ r.ok
         /\ cigarette_id' = [cigarette_id EXCEPT ![p] = r.val]
  /\ UNCHANGED <<panel, result, lock, mci, found, tx, user, daily_summary,
                 users, logs, reply, now, nPresses, handled, aux>>

\* extract_cigarette_id fails.
ExtractFail(p) ==
  /\ pc[p] = "h_extract"
  /\ ~extract_cigarette_id(mci[p].custom_id, uuid[p]).ok
  /\ Fail(p, "decode")
  /\ UNCHANGED <<panel, users, logs, reply, now, nPresses, handled, aux>>

\* db.log_smoking(&user.discord_id, cigarette_id, 1)
Log(p) ==
  /\ pc[p] = "h_log"
  /\ pc' = [pc EXCEPT ![p] = "h_summary"]
  /\ logs' = log_smoking(logs, user[p].discord_id, cigarette_id[p], 1, now)
  /\ UNCHANGED <<panel, result, lock, locals, users, reply, now, nPresses, handled, aux>>

\* db.get_daily_summary(&user.discord_id, Local::now().date_naive())
Summary(p) ==
  /\ pc[p] = "h_summary"
  /\ pc' = [pc EXCEPT ![p] = "h_respond"]
  /\ daily_summary' = [daily_summary EXCEPT ![p] =
       get_daily_summary(users, logs, user[p].discord_id, DateOf(now))]
  /\ UNCHANGED <<panel, result, lock, mci, found, tx, user, cigarette_id,
                 users, logs, reply, now, nPresses, handled, aux>>

\* mci.create_response: the reply is sent, handle_interaction returns Ok and
\* the loop waits for the next press.
Respond(p) ==
  /\ pc[p] = "h_respond"
  /\ pc' = [pc EXCEPT ![p] = "listen"]
  /\ reply' = [reply EXCEPT ![p] =
       [event |-> mci[p].id, content |-> format_daily_summary(daily_summary[p])]]
  /\ lock' = 0
  /\ mci' = [mci EXCEPT ![p] = NoneVal]
  /\ user' = [user EXCEPT ![p] = NoneVal]
  /\ cigarette_id' = [cigarette_id EXCEPT ![p] = NoneVal]
  /\ daily_summary' = [daily_summary EXCEPT ![p] = NoneVal]
  /\ handled' = handled + 1
  /\ UNCHANGED <<panel, result, found, tx, users, logs, now, nPresses, aux>>

\* A gateway call of handle_interaction fails.
StoreFail(p) ==
  /\ pc[p] \in GocPcs \cup {"h_log", "h_summary"}
  /\ Fail(p, "store")
  /\ UNCHANGED <<panel, users, logs, reply, now, nPresses, handled, aux>>

\* mci.create_response fails.
RespondFail(p) ==
  /\ pc[p] = "h_respond"
  /\ Fail(p, "platform")
  /\ UNCHANGED <<panel, users, logs, reply, now, nPresses, handled, aux>>

\* Time passes.
Tick ==
  /\ now < MaxNow
  /\ now' = now + 1
  /\ UNCHANGED <<pc, panel, result, lock, locals, users, logs, reply, nPresses, handled, aux>>

Next ==
  \/ \E p \in Inv :
       \/ Invoke(p) \/ RenderLock(p) \/ RenderTypes(p) \/ RenderTypesFail(p)
       \/ Send(p) \/ SendFail(p) \/ StreamEnd(p) \/ HandleLock(p)
       \/ GocSelect(p) \/ GocWrite(p) \/ GocCommit(p)
       \/ Extract(p) \/ ExtractFail(p) \/ Log(p) \/ Summary(p)
       \/ Respond(p) \/ StoreFail(p) \/ RespondFail(p)
  \/ Press
  \/ PressOther
  \/ Tick

Spec == Init /\ [][Next]_vars

\* ------------------------------------------------------- fair scheduling

\* `lock().await` completing: the task waiting for the mutex is polled while
\* the mutex is free.
LockStep(p) == RenderLock(p) \/ HandleLock(p)

\* The awaited store and platform calls made under the guard returning, with
\* a value or with an error.
HeldStep(p) ==
  \/ RenderTypes(p) \/ RenderTypesFail(p)
  \/ GocSelect(p) \/ GocWrite(p) \/ GocCommit(p)
  \/ Extract(p) \/ ExtractFail(p) \/ Log(p) \/ Summary(p)
  \/ Respond(p) \/ StoreFail(p) \/ RespondFail(p)

\* The runtime polls every woken task, and every call made under the guard
\* returns.  Invocations, presses, the end of a stream and sending the panel
\* are left to the environment.
Fairness == \A p \in Inv : SF_vars(LockStep(p)) /\ WF_vars(HeldStep(p))

\* The presses of one user: who presses decides the rows written, never who
\* takes the lock.
OnePresser == \A p \in Inv : (mci'[p] # mci[p]) => mci'[p].user.id = 1

PressByOne == Press /\ OnePresser

PressOtherByOne == PressOther /\ OnePresser

\* The invocations under the presses of one user, within one clock reading.
NextFair ==
  \/ \E p \in Inv :
       \/ Invoke(p) \/ RenderLock(p) \/ RenderTypes(p) \/ RenderTypesFail(p)
       \/ Send(p) \/ SendFail(p) \/ StreamEnd(p) \/ HandleLock(p)
       \/ GocSelect(p) \/ GocWrite(p) \/ GocCommit(p)
       \/ Extract(p) \/ ExtractFail(p) \/ Log(p) \/ Summary(p)
       \/ Respond(p) \/ StoreFail(p) \/ RespondFail(p)
  \/ PressByOne
  \/ PressOtherByOne

FairSpec == Init /\ [][NextFair]_vars /\ Fairness

\* ------------------------------------------------- the gateway on its own

\* The user identifiers and display names the gateway is called with.
DiscordIds == {to_string(u.id) : u \in Users}
Names == {u.name : u \in Users}

\* The type ids log_smoking is called with: the catalog's, and one that is not.
LoggedTypeIds == {t.id : t \in smoking_types} \cup {111}

\* The quantities log_smoking is called with.
Quantities == {1, 2}

\* The main flow's variables, which the gateway calls leave alone.
flow == <<pc, panel, result, lock, locals, reply, nPresses, handled, rt>>

\* get_or_create_user, from begin to commit.
DbGetOrCreateUser ==
  /\ calls < MaxCalls
  /\ \E d \in DiscordIds, n \in Names :
       LET w == goc_write(goc_select(users, d), d, n, now)
       IN  /\ users' = goc_commit(users, w)
           /\ last' = [op |-> "get_or_create_user", discord_id |-> d, username |-> n,
                       wrote |-> w.op, ret |-> w.row]
  /\ prev' = last
  /\ calls' = calls + 1
  /\ UNCHANGED <<flow, logs, now>>

\* log_smoking, for a user the users table holds (smoking_logs.discord_id
\* refers to users; handle_interaction logs for the user it just resolved).
DbLogSmoking ==
  /\ calls < MaxCalls
  /\ \E d \in {users[i].discord_id : i \in 1..Len(users)},
        t \in LoggedTypeIds, q \in Quantities :
       /\ logs' = log_smoking(logs, d, t, q, now)
       /\ last' = [op |-> "log_smoking", discord_id |-> d, smoking_type_id |-> t,
                   quantity |-> q]
  /\ prev' = last
  /\ calls' = calls + 1
  /\ UNCHANGED <<flow, users, now>>

NextDb == DbGetOrCreateUser \/ DbLogSmoking \/ Tick

SpecDb == Init /\ [][NextDb]_vars

\* ------------------------------------------- the identifier round trip

\* The correlation tokens of the round trip.
RtTokens == {1, 2, 12, 121}

\* create_cigarette_buttons builds the identifier of one button.
RtBuild ==
  /\ rt = NoneVal
  /\ \E token \in RtTokens, id \in 1..MaxTypeId :
       rt' = [step |-> "built", uuid |-> to_string(token), type_id |-> id,
              custom_id |-> button_id(to_string(token), id),
              result |-> [ok |-> FALSE, val |-> 0]]
  /\ UNCHANGED <<pc, panel, result, lock, locals, users, logs, reply, now,
                 nPresses, handled, calls, last, prev>>

\* extract_cigarette_id reads it back.
RtExtract ==
  /\ rt # NoneVal
  /\ rt.step = "built"
  /\ rt' = [rt EXCEPT !.step = "parsed",
                      !.result = extract_cigarette_id(rt.custom_id, rt.uuid)]
  /\ UNCHANGED <<pc, panel, result, lock, locals, users, logs, reply, now,
                 nPresses, handled, calls, last, prev>>

NextParse == RtBuild \/ RtExtract

SpecParse == Init /\ [][NextParse]_vars

\* ------------------------------------------------------------------ claims

\* The press an invocation is handling was made on a button of some panel.
OnPanel(p) == mci[p] # NoneVal /\ mci[p].message \in Inv

\* C1: a press on a button that one invocation rendered is never accepted by
\* another invocation's listener.
C1_NoCrossDispatch == \A p \in Inv : OnPanel(p) => mci[p].message = p

\* C2: once handle_interaction has succeeded for a press, the users row of the
\* pressing user's identifier holds the pressing user's display name.
C2_PresserName ==
  [][\A p \in Inv :
       (pc[p] = "h_respond" /\ pc'[p] = "listen") =>
         goc_select(users', to_string(mci[p].user.id)).username = mci[p].user.name]_vars

\* C3: the identifier built from a token and a type id reads back as that
\* type id.
C3_RoundTrip ==
  (rt # NoneVal /\ rt.step = "parsed") => rt.result = [ok |-> TRUE, val |-> rt.type_id]

\* What is left of an identifier once the one leading token is taken off.
AfterToken(custom_id, token) == SubSeq(custom_id, Len(token) + 1, Len(custom_id))

\* A base-10 integer: an optional sign and at least one digit, digits only.
IsDecimalInteger(s) ==
  LET body == IF Len(s) > 0 /\ s[1] \in {"+", "-"} THEN SubSeq(s, 2, Len(s)) ELSE s
  IN  Len(body) > 0 /\ \A i \in 1..Len(body) : IsDigit(body[i])

\* The press an invocation is handling has no base-10 integer after the token.
BadSuffix(p) ==
  mci[p] # NoneVal /\ ~IsDecimalInteger(AfterToken(mci[p].custom_id, uuid[p]))

\* C4: the handling of a press whose identifier has no base-10 integer after
\* the token returns an error before log_smoking: it is never past the insert.
C4_BadSuffixNotLogged ==
  \A p \in Inv : BadSuffix(p) => pc[p] \notin {"h_summary", "h_respond"}

\* The positions of handle_interaction after get_or_create_user returned.
AfterGocPcs == {"h_extract", "h_log", "h_summary", "h_respond"}

\* The rows of the users table with one identifier.
RowsOf(table, d) == {i \in 1..Len(table) : table[i].discord_id = d}

\* One commit's change to the users table: one row more, or one row rewritten.
OneWrite(old, new) ==
  \/ /\ Len(new) = Len(old) + 1
     /\ SubSeq(new, 1, Len(old)) = old
  \/ /\ Len(new) = Len(old)
     /\ Cardinality({i \in 1..Len(old) : new[i] # old[i]}) = 1
     /\ \A i \in 1..Len(old) : new[i].discord_id = old[i].discord_id

\* C5: however the invocations' get_or_create_user calls interleave, the
\* users table never holds two rows for one identifier, holds a row for the
\* identifier of every call that returned, no transaction stays open once the
\* call is over, and the table changes only at a commit, by one write.
C5_OneRowPerUser ==
  /\ [](/\ \A d \in DiscordIds : Cardinality(RowsOf(users, d)) <= 1
        /\ \A p \in Inv : pc[p] \in AfterGocPcs =>
             Cardinality(RowsOf(users, goc_discord_id(p))) = 1
        /\ \A p \in Inv : pc[p] \notin GocPcs => tx[p] = NoneVal)
  /\ [][users' # users =>
          /\ \E p \in Inv : pc[p] = "h_goc_commit" /\ pc'[p] = "h_extract"
          /\ OneWrite(users, users')]_vars

\* C5 happens: an invocation's call has returned for a user while the other
\* invocation, which has replied to an earlier press and whose author has
\* another name than the row now holds, waits for the lock with a press of
\* that same user.
C5_Witness ==
  \E p \in Inv, q \in Inv :
    /\ p # q
    /\ pc[p] = "h_extract"
    /\ pc[q] = "h_lock"
    /\ mci[q].user = mci[p].user
    /\ reply[q] # NoneVal
    /\ user[p].username # author[q].name

\* C6: a get_or_create_user call returns the stored row of its identifier,
\* carrying the name it was given; called again with the same identifier and
\* name it writes nothing and returns the same row, timestamp included.
C6_Idempotent ==
  /\ last.op = "get_or_create_user" =>
       /\ last.ret.discord_id = last.discord_id
       /\ last.ret.username = last.username
       /\ goc_select(users, last.discord_id) = last.ret
  /\ ( /\ last.op = "get_or_create_user"
       /\ prev.op = "get_or_create_user"
       /\ last.discord_id = prev.discord_id
       /\ last.username = prev.username ) =>
       /\ last.wrote = "none"
       /\ last.ret = prev.ret

\* C6 happens: the same pair twice in a row, the second call at a later time.
C6_Witness ==
  /\ last.op = "get_or_create_user"
  /\ prev.op = "get_or_create_user"
  /\ last.discord_id = prev.discord_id
  /\ last.username = prev.username
  /\ now > prev.ret.updated_at

\* The summed quantity of the first n log rows of user d, type t and date day.
RECURSIVE LoggedQuantity(_, _, _, _)
LoggedQuantity(n, d, t, day) ==
  IF n = 0 THEN 0
  ELSE LoggedQuantity(n - 1, d, t, day)
       + IF /\ logs[n].discord_id = d
            /\ logs[n].smoking_type_id = t
            /\ DateOf(logs[n].smoked_at) = day
         THEN logs[n].quantity ELSE 0

\* The dates of the clock.
Dates == 0..DateOf(MaxNow)

\* C7: for every user and date, the daily summary has exactly one entry for
\* each catalog type with a log row of that user and date, its total the sum
\* of those rows' quantities, and no other entry.
C7_DailySummary ==
  \A d \in DiscordIds, day \in Dates :
    LET S == get_daily_summary(users, logs, d, day)
    IN  /\ \A t \in smoking_types :
             LET entries == {s \in S : s.type_name = t.type_name}
                 q == LoggedQuantity(Len(logs), d, t.id, day)
             IN  IF q = 0 THEN entries = {}
                 ELSE /\ Cardinality(entries) = 1
                      /\ \A s \in entries : s.total_quantity = q
        /\ \A s \in S :
             /\ s.discord_id = d
             /\ s.smoke_date = day
             /\ \E t \in smoking_types :
                  s.type_name = t.type_name /\ s.description = t.description

\* C7 happens: three rows of quantity 1 of one user, type and date give 3.
C7_Witness ==
  /\ Len(logs) = 3
  /\ \A i \in 1..3 : logs[i].quantity = 1
  /\ \E s \in get_daily_summary(users, logs, <<"1">>, 0) : s.total_quantity = 3

\* The catalog type of the button an invocation's press was made on.
PressedType(p) ==
  CHOOSE t \in smoking_types :
    button_id(uuid[mci[p].message], t.id) = mci[p].custom_id

\* C8: the summary read for the reply holds the pressed type, with a total of
\* at least 1, and every total in it is the user's logged quantity.
C8_ReplyCountsPress ==
  \A p \in Inv : (pc[p] = "h_respond" /\ OnPanel(p)) =>
    /\ \E s \in daily_summary[p] :
         /\ s.type_name = PressedType(p).type_name
         /\ s.total_quantity >= 1
    /\ \A s \in daily_summary[p], t \in smoking_types :
         s.type_name = t.type_name =>
           s.total_quantity =
             LoggedQuantity(Len(logs), user[p].discord_id, t.id, s.smoke_date)

\* C9 as claimed: with no press being handled, the log holds one row for each
\* successful run of handle_interaction, and no other row.
C9_RowsAreHandledPresses ==
  (\A p \in Inv : pc[p] \notin HandlePcs) => Len(logs) = handled

\* C9 as amended: the log changes only by a run of handle_interaction
\* appending one row at log_smoking, of quantity 1, the pressing user's
\* identifier and the type id it parsed; rows stay as they are; each run that
\* returns Ok has appended its row.
C9_AppendOnly ==
  /\ [][logs' # logs =>
          \E p \in Inv :
            /\ pc[p] = "h_log" /\ pc'[p] = "h_summary"
            /\ Len(logs') = Len(logs) + 1
            /\ SubSeq(logs', 1, Len(logs)) = logs
            /\ logs'[Len(logs')].quantity = 1
            /\ logs'[Len(logs')].discord_id = to_string(mci[p].user.id)
            /\ logs'[Len(logs')].smoking_type_id =
                 extract_cigarette_id(mci[p].custom_id, uuid[p]).val]_vars
  /\ [][handled' # handled =>
          /\ handled' = handled + 1
          /\ \E p \in Inv :
               /\ pc[p] = "h_respond" /\ pc'[p] = "listen"
               /\ \E i \in 1..Len(logs) :
                    /\ logs[i].discord_id = to_string(mci[p].user.id)
                    /\ logs[i].smoking_type_id = cigarette_id[p]
                    /\ logs[i].quantity = 1]_vars
  /\ [](handled <= Len(logs))

\* C9 happens: a row stays in the log though its press's handling failed at
\* the reply.
C9_Witness ==
  \E p \in Inv :
    /\ pc[p] = "failed"
    /\ result[p].kind = "platform"
    /\ Len(logs) > handled
    /\ \A q \in Inv : pc[q] \notin HandlePcs

\* C10: a handling ends either with its reply sent, the loop waiting again,
\* or with the invocation returning the error; a decode failure always ends
\* it with the error; an invocation that returned an error stays so and takes
\* no press; and its failing changes no other invocation and leaves the lock
\* free for them.
C10_ErrorAborts ==
  [][\A p \in Inv :
       /\ (pc[p] \in HandlePcs /\ pc'[p] \notin HandlePcs) =>
            \/ /\ pc[p] = "h_respond" /\ pc'[p] = "listen"
               /\ reply'[p].event = mci[p].id
            \/ /\ pc'[p] = "failed"
               /\ result'[p] # NoneVal /\ ~result'[p].ok
               /\ reply' = reply /\ logs' = logs /\ users' = users
       /\ ( /\ pc[p] = "h_extract" /\ pc'[p] # pc[p]
            /\ ~IsDecimalInteger(trim_start_matches(mci[p].custom_id, uuid[p])) ) =>
            pc'[p] = "failed"
       /\ pc[p] = "failed" =>
            /\ pc'[p] = "failed" /\ result'[p] = result[p]
            /\ mci'[p] = NoneVal /\ reply'[p] = reply[p] /\ lock' # p
       /\ (pc[p] # "failed" /\ pc'[p] = "failed") =>
            /\ lock' # p
            /\ \A q \in Inv \ {p} :
                 /\ pc'[q] = pc[q] /\ mci'[q] = mci[q] /\ result'[q] = result[q]
                 /\ (lock = q => lock' = q)]_vars

\* C10 happens: one invocation has returned a decode error, and the other
\* has since taken the lock and handled a press up to its reply.
C10_Witness ==
  /\ pc[1] = "failed"
  /\ result[1].kind = "decode"
  /\ pc[2] = "h_respond"

\* --------------------------------------------------------------- C11

\* The positions at which an invocation holds the guard of the mutex.
LockPcs == {"r_types"} \cup HandlePcs

\* The positions at which an invocation waits for the mutex.
WaitPcs == {"r_lock", "h_lock"}

====
